---- MODULE Spec2Model ----
(***************************************************************************)
(* Model of check_json_schema_meta.py: the pre-commit hook that validates  *)
(* each JSON file against the schema named by its top-level "$schema" key. *)
(*                                                                         *)
(* main() is the state machine: one loop iteration per action, chosen by   *)
(* the branch the iteration takes.  validate_json_file() is a pure         *)
(* operator that returns the boolean, the lines it prints and the calls it *)
(* makes to the schema loader and the validator.                           *)
(***************************************************************************)
EXTENDS Integers, Sequences, FiniteSets, TLC

\* Longest argument list explored (argparse nargs="+": at least one file).
MaxFiles == 2

-----------------------------------------------------------------------------
(* JSON values.  A value is [t, s]: its JSON type and its content as a     *)
(* sequence of text pieces (for a string: the pieces of the string, a      *)
(* piece being either literal text or one $VAR / ${VAR} reference; for an  *)
(* array or object: the names of its members).                             *)

JV(t, s) == [t |-> t, s |-> s]

JNull     == JV("null", <<>>)
JFalse    == JV("bool", <<"false">>)
JZero     == JV("number", <<"0">>)
JFive     == JV("number", <<"5">>)
JEmptyStr == JV("string", <<>>)
JEmptyArr == JV("array", <<>>)
JEmptyObj == JV("object", <<>>)
JText     == JV("string", <<"test value">>)
\* a nested object that has a "$schema" member of its own
JNested   == JV("object", <<"$schema">>)

\* The test written as `schema_ref is not None`: only null counts as absent.
Truthy_NotNone(v) == v.t # "null"

\* Python truthiness of a JSON value (line 41: `if not schema_ref`).
Truthy(v) ==
    CASE v.t = "null"   -> FALSE
      [] v.t = "bool"   -> v.s = <<"true">>
      [] v.t = "number" -> v.s # <<"0">>
      [] OTHER          -> Len(v.s) > 0

\* The process environment read by os.path.expandvars.
Environ ==
    [v \in {"$SCHEMA_DIR", "${SCHEMA_DIR}"} |-> <<"file:///schemas">>]

\* os.path.expandvars on the pieces of a string: a reference to a variable
\* that is set is replaced by its value, anything else is left as written.
RECURSIVE ExpandPieces(_)
ExpandPieces(s) ==
    IF s = <<>> THEN <<>>
    ELSE (IF Head(s) \in DOMAIN Environ THEN Environ[Head(s)] ELSE <<Head(s)>>)
         \o ExpandPieces(Tail(s))

-----------------------------------------------------------------------------
(* Schemas the loader can resolve.  A schema lists the type each declared  *)
(* property must have and whether undeclared properties are allowed.       *)

NoProps == [k \in {} |-> "string"]

StrictSchema == [props |-> [k \in {"name"} |-> "string"],
                 additionalProperties |-> FALSE]
OpenSchema   == [props |-> NoProps, additionalProperties |-> TRUE]

StrictRef == <<"file:///schemas", "/strict.json">>
OpenRef   == <<"http://json-schema.org/draft-07/schema#">>

Resolvable == {StrictRef, OpenRef}
SchemaAt(ref) == IF ref = StrictRef THEN StrictSchema ELSE OpenSchema

-----------------------------------------------------------------------------
(* Parsed documents and files.                                             *)

NoFields == [k \in {} |-> JNull]

ArrayDoc(n)  == [kind |-> "array",  fields |-> NoFields, items |-> n]
\* a top-level value that is neither a list nor a dict, by its JSON type
ScalarTypes  == {"number", "string", "boolean", "null"}
ScalarDoc(t) == [kind |-> t,        fields |-> NoFields, items |-> 0]
ObjectDoc(f) == [kind |-> "object", fields |-> f, items |-> 0]
NoDoc        == [kind |-> "none",   fields |-> NoFields, items |-> 0]

\* Bodies: the members of an object other than "$schema".
BodyEmpty  == NoFields
BodyName   == [k \in {"name"} |-> JText]
BodyBadTyp == [k \in {"name"} |-> JFive]
BodyExtra  == [k \in {"name", "extra"} |-> IF k = "name" THEN JText ELSE JNested]

WithSchema(body, v) ==
    [k \in DOMAIN body \cup {"$schema"} |-> IF k = "$schema" THEN v ELSE body[k]]

Str(s) == JV("string", s)

Objects ==
       {ObjectDoc(b) : b \in {BodyEmpty, BodyExtra}}
  \cup {ObjectDoc(WithSchema(b, Str(StrictRef))) :
            b \in {BodyEmpty, BodyName, BodyBadTyp, BodyExtra}}
  \cup {ObjectDoc(WithSchema(b, Str(OpenRef))) : b \in {BodyEmpty, BodyExtra}}
  \cup {ObjectDoc(WithSchema(b, Str(<<"$SCHEMA_DIR", "/strict.json">>))) :
            b \in {BodyName, BodyBadTyp}}
  \cup {ObjectDoc(WithSchema(BodyName, v)) :
            v \in {Str(<<"${SCHEMA_DIR}", "/strict.json">>),
                   Str(<<"$UNSET", "/strict.json">>),
                   Str(<<"https://invalid-schema-url.com/nonexistent.json">>),
                   JEmptyStr, JNull, JFalse, JZero, JEmptyArr, JEmptyObj,
                   JFive}}

Docs == {ArrayDoc(0), ArrayDoc(2)} \cup {ScalarDoc(t) : t \in ScalarTypes}
        \cup Objects

Exts == {"json", "txt"}

\* What the file system holds at a path.
BadConds == {"missing", "directory", "unreadable", "not_utf8", "invalid_json"}

File(e, c, d) == [ext |-> e, cond |-> c, data |-> d]

Files ==
       {File("json", c, NoDoc) : c \in BadConds}
  \cup {File("json", "valid", d) : d \in Docs}
  \cup {File("txt", c, NoDoc) : c \in {"missing", "not_utf8", "invalid_json"}}
  \cup {File("txt", "valid", d) :
            d \in {ArrayDoc(0), ObjectDoc(BodyEmpty),
                   ObjectDoc(WithSchema(BodyName, Str(StrictRef)))}}

-----------------------------------------------------------------------------
(* What the code prints and calls.                                         *)

Check == "check"      \* the line starts with the check mark
Cross == "cross"      \* the line starts with the cross mark
Warn  == "warning"    \* the line starts with the warning sign

Line(path, mark, msg) == [path |-> path, mark |-> mark, msg |-> msg]

\* The result of one call of validate_json_file: the boolean returned, the
\* lines printed, the references given to SchemaLoader(...) and the calls
\* made on the validator, in order.
Ret(result, out, loader, validator) ==
    [result |-> result, out |-> out, loader |-> loader, validator |-> validator]

Failed(path, msg) == Ret(FALSE, <<Line(path, Cross, msg)>>, <<>>, <<>>)

Call(op, instance) == [op |-> op, instance |-> instance]

\* A loader that first looks at the extension and treats anything but
\* .json as not JSON.
JsonLoad_ByExtension(file) ==
    CASE file.cond = "missing"      -> "FileNotFoundError"
      [] file.cond = "directory"    -> "IsADirectoryError"
      [] file.cond = "unreadable"   -> "PermissionError"
      [] file.ext # "json"          -> "JSONDecodeError"
      [] file.cond = "not_utf8"     -> "UnicodeDecodeError"
      [] file.cond = "invalid_json" -> "JSONDecodeError"
      [] OTHER                      -> "ok"

\* open(path, "r", encoding="utf-8") followed by json.load(f): "ok" or the
\* exception raised.  The file name's extension is not looked at.
JsonLoad(file) ==
    CASE file.cond = "missing"      -> "FileNotFoundError"
      [] file.cond = "directory"    -> "IsADirectoryError"
      [] file.cond = "unreadable"   -> "PermissionError"
      [] file.cond = "not_utf8"     -> "UnicodeDecodeError"
      [] file.cond = "invalid_json" -> "JSONDecodeError"
      [] OTHER                      -> "ok"

\* Path.exists(): a directory or an unreadable file exists.
PathExists(file) == file.cond # "missing"

-----------------------------------------------------------------------------
(* validate_json_file                                                      *)

\* The list branch without its test of strict.
ArrayBranch_IgnoresStrict(file_path, strict) ==
    Ret(TRUE, <<>>, <<>>, <<>>)

\* The list branch announcing the skip with a warning line.
ArrayBranch_Warns(file_path, strict) ==
    IF strict
    THEN Failed(file_path, "JSON array does not support '$schema' key")
    ELSE Ret(TRUE, <<Line(file_path, Warn, "JSON array, skipping")>>, <<>>, <<>>)

\* lines 33-38: the document is a list
ArrayBranch(file_path, strict) ==
    IF strict
    THEN Failed(file_path, "JSON array does not support '$schema' key")
    ELSE Ret(TRUE, <<>>, <<>>, <<>>)

\* The missing-key branch without its test of strict.
MissingSchemaBranch_IgnoresStrict(file_path, strict) ==
    Ret(TRUE, <<>>, <<>>, <<>>)

\* lines 41-46: data.get("$schema") is absent or falsy
MissingSchemaBranch(file_path, strict) ==
    IF strict
    THEN Failed(file_path, "Missing '$schema' key")
    ELSE Ret(TRUE, <<>>, <<>>, <<>>)

\* line 40: data.get("$schema") (None when the key is absent)
GetSchemaRef(data) ==
    IF "$schema" \in DOMAIN data THEN data["$schema"] ELSE JNull

\* Expansion done whatever the flag says.
ExpandedRef_Always(schema_ref, expand_env_vars) ==
    Str(ExpandPieces(schema_ref.s))

\* lines 49-50: the reference handed to SchemaLoader
ExpandedRef(schema_ref, expand_env_vars) ==
    IF expand_env_vars THEN Str(ExpandPieces(schema_ref.s)) ELSE schema_ref

\* The whole document handed on, "$schema" included.
data_without_schema_KeepsAll(data) ==
    [k \in DOMAIN data |-> data[k]]

\* line 56: {k: v for k, v in data.items() if k != "$schema"}
data_without_schema(data) ==
    [k \in DOMAIN data \ {"$schema"} |-> data[k]]

\* What validator.validate finds wrong with an instance: the undeclared
\* members when the schema forbids them (an error at the root, with an
\* empty absolute_path) and the members of the wrong type (an error whose
\* absolute_path is the member's name).
RootErrors(schema, instance) ==
    IF schema.additionalProperties THEN {}
    ELSE {k \in DOMAIN instance : k \notin DOMAIN schema.props}

PathErrors(schema, instance) ==
    {k \in DOMAIN instance \cap DOMAIN schema.props :
        instance[k].t # schema.props[k]}

\* lines 53, 66-78 and the handlers of lines 83-93 for what they raise.
\* SchemaLoader(ref) rejects a reference that is not a string; get_validator
\* fetches the schema and raises when it cannot be resolved; validate raises
\* ValidationError for the most relevant error.
LoadAndValidate(file_path, ref, instance) ==
    IF ref.t # "string"
    THEN Ret(FALSE, <<Line(file_path, Cross, "schema reference is not a string")>>,
             <<ref>>, <<>>)
    ELSE IF ref.s \notin Resolvable
    THEN Ret(FALSE, <<Line(file_path, Cross, "schema could not be loaded")>>,
             <<ref>>, <<Call("get_validator", instance)>>)
    ELSE LET schema == SchemaAt(ref.s)
             calls  == <<Call("get_validator", instance), Call("validate", instance)>>
         IN  IF RootErrors(schema, instance) # {}
             THEN Ret(FALSE, <<Line(file_path, Cross, "Schema validation failed")>>,
                      <<ref>>, calls)
             ELSE IF PathErrors(schema, instance) # {}
             THEN Ret(FALSE, <<Line(file_path, Cross, "Invalid value at")>>,
                      <<ref>>, calls)
             ELSE Ret(TRUE, <<Line(file_path, Check, "Schema validation passed")>>,
                      <<ref>>, calls)

\* The dict branch with the two flags taken in the wrong order.
ObjectBranch_FlagsSwapped(file_path, data, strict, expand_env_vars) ==
    LET schema_ref == GetSchemaRef(data)
    IN  IF ~Truthy(schema_ref)
        THEN MissingSchemaBranch(file_path, expand_env_vars)
        ELSE IF strict /\ schema_ref.t # "string"
        THEN Failed(file_path, "TypeError")
        ELSE LoadAndValidate(file_path,
                             ExpandedRef(schema_ref, strict),
                             data_without_schema(data))

\* lines 40-78 for a document that is a dict
ObjectBranch(file_path, data, strict, expand_env_vars) ==
    LET schema_ref == GetSchemaRef(data)
    IN  IF ~Truthy(schema_ref)
        THEN MissingSchemaBranch(file_path, strict)
        ELSE IF expand_env_vars /\ schema_ref.t # "string"
        THEN Failed(file_path, "TypeError")  \* os.path.expandvars on a non-string
        ELSE LoadAndValidate(file_path,
                             ExpandedRef(schema_ref, expand_env_vars),
                             data_without_schema(data))

\* A document without a "$schema" looked for with `not data or ...`: a
\* top-level null counts as a document that has no schema.
validate_json_file_NullSkips(file_path, file, strict, expand_env_vars) ==
    LET loaded == JsonLoad(file)
    IN  IF loaded = "JSONDecodeError"
        THEN Failed(file_path, "Invalid JSON")
        ELSE IF loaded # "ok"
        THEN Failed(file_path, loaded)
        ELSE IF file.data.kind = "array"
        THEN ArrayBranch(file_path, strict)
        ELSE IF file.data.kind = "null"
        THEN MissingSchemaBranch(file_path, strict)
        ELSE IF file.data.kind # "object"
        THEN Failed(file_path, "AttributeError")
        ELSE ObjectBranch(file_path, file.data.fields, strict, expand_env_vars)

validate_json_file(file_path, file, strict, expand_env_vars) ==
    LET loaded == JsonLoad(file)
    IN  IF loaded = "JSONDecodeError"
        THEN Failed(file_path, "Invalid JSON")            \* lines 80-82
        ELSE IF loaded # "ok"
        THEN Failed(file_path, loaded)                    \* lines 91-93
        ELSE IF file.data.kind = "array"
        THEN ArrayBranch(file_path, strict)
        ELSE IF file.data.kind # "object"
        THEN Failed(file_path, "AttributeError")          \* no .get: lines 91-93
        ELSE ObjectBranch(file_path, file.data.fields, strict, expand_env_vars)

-----------------------------------------------------------------------------
(* main                                                                    *)

VARIABLES
    files,               \* args.files: what each listed path holds
    strict,              \* args.strict
    expand_env_vars,     \* args.expand_env_vars
    pc,                  \* "loop", "done" (main returned) or "raised"
    validation_results,  \* one boolean per path handled so far
    stdout,              \* the lines printed, in order
    opened,              \* the paths main itself opened (line 138)
    validated,           \* the paths validate_json_file was called on
    loader_calls,        \* [path, ref] for each SchemaLoader(ref)
    validator_calls,     \* [path, op, instance] for each validator call
    exit_code            \* main's return value, -1 until it returns

vars == <<files, strict, expand_env_vars, pc, validation_results, stdout,
          opened, validated, loader_calls, validator_calls, exit_code>>

ArgLists == UNION {[1..n -> Files] : n \in 1..MaxFiles}

Init ==
    /\ files \in ArgLists
    /\ strict \in BOOLEAN
    /\ expand_env_vars \in BOOLEAN
    /\ pc = "loop"
    /\ validation_results = <<>>
    /\ stdout = <<>>
    /\ opened = <<>>
    /\ validated = <<>>
    /\ loader_calls = <<>>
    /\ validator_calls = <<>>
    /\ exit_code = -1

\* The position of the loop: the index of the next path of args.files.
Current == Len(validation_results) + 1

InLoop == pc = "loop" /\ Current <= Len(files)

Tag(path, s) == [j \in 1..Len(s) |-> [path |-> path, call |-> s[j]]]

\* lines 131-134
FileNotFound ==
    /\ InLoop
    /\ ~PathExists(files[Current])
    /\ stdout' = Append(stdout, Line(Current, Cross, "File not found"))
    /\ validation_results' = Append(validation_results, FALSE)
    /\ UNCHANGED <<files, strict, expand_env_vars, pc, opened, validated,
                   loader_calls, validator_calls, exit_code>>

\* lines 137-143: the trial parse raises json.JSONDecodeError
NotValidJson ==
    /\ InLoop
    /\ PathExists(files[Current])
    /\ JsonLoad(files[Current]) = "JSONDecodeError"
    /\ opened' = Append(opened, Current)
    /\ stdout' = Append(stdout, Line(Current, Cross, "Not a valid JSON file"))
    /\ validation_results' = Append(validation_results, FALSE)
    /\ UNCHANGED <<files, strict, expand_env_vars, pc, validated,
                   loader_calls, validator_calls, exit_code>>

\* lines 137-140: the trial parse raises something the except clause does
\* not name; the exception leaves main
TrialParseRaises ==
    /\ InLoop
    /\ PathExists(files[Current])
    /\ JsonLoad(files[Current]) \notin {"ok", "JSONDecodeError"}
    /\ opened' = Append(opened, Current)
    /\ pc' = "raised"
    /\ UNCHANGED <<files, strict, expand_env_vars, validation_results, stdout,
                   validated, loader_calls, validator_calls, exit_code>>

\* lines 145-147
ValidateFile ==
    /\ InLoop
    /\ PathExists(files[Current])
    /\ JsonLoad(files[Current]) = "ok"
    /\ LET r == validate_json_file(Current, files[Current], strict, expand_env_vars)
       IN  /\ opened' = Append(opened, Current)
           /\ validated' = Append(validated, Current)
           /\ stdout' = stdout \o r.out
           /\ loader_calls' = loader_calls \o Tag(Current, r.loader)
           /\ validator_calls' = validator_calls \o Tag(Current, r.validator)
           /\ validation_results' = Append(validation_results, r.result)
    /\ UNCHANGED <<files, strict, expand_env_vars, pc, exit_code>>

\* all(validation_results)
All(results) == \A j \in 1..Len(results) : results[j]

\* line 149
Return ==
    /\ pc = "loop"
    /\ Current > Len(files)
    /\ exit_code' = IF All(validation_results) THEN 0 ELSE 1
    /\ pc' = "done"
    /\ UNCHANGED <<files, strict, expand_env_vars, validation_results, stdout,
                   opened, validated, loader_calls, validator_calls>>

Next ==
    \/ FileNotFound
    \/ NotValidJson
    \/ TrialParseRaises
    \/ ValidateFile
    \/ Return

Spec == Init /\ [][Next]_vars

-----------------------------------------------------------------------------
(* Vocabulary of the properties.                                           *)

Paths == 1..Len(files)

\* main has appended an outcome for path i
Recorded(i) == i <= Len(validation_results)

\* main has ended, by returning or by an exception leaving it
Finished == pc \in {"done", "raised"}

\* the exception left main while it was handling path i
RaisedAt(i) == pc = "raised" /\ i = Current

\* main has dealt with path i, one way or the other
Handled(i) == Recorded(i) \/ RaisedAt(i)

LinesOf(i)     == SelectSeq(stdout, LAMBDA l : l.path = i)
LoaderOf(i)    == SelectSeq(loader_calls, LAMBDA c : c.path = i)
ValidatorOf(i) == SelectSeq(validator_calls, LAMBDA c : c.path = i)
WasValidated(i) == \E j \in 1..Len(validated) : validated[j] = i
WasOpened(i)    == \E j \in 1..Len(opened) : opened[j] = i

IsValid(f)  == f.cond = "valid"
IsArray(f)  == IsValid(f) /\ f.data.kind = "array"
IsObject(f) == IsValid(f) /\ f.data.kind = "object"
HasSchemaKey(f) == IsObject(f) /\ "$schema" \in DOMAIN f.data.fields
\* a regular, readable file whose bytes are not a JSON text
NotParseable(f) == f.cond \in {"invalid_json", "not_utf8"}

-----------------------------------------------------------------------------
(* C1                                                                      *)

PassedOrSkipped(i) ==
    /\ PathExists(files[i])
    /\ JsonLoad(files[i]) = "ok"
    /\ Recorded(i) /\ WasValidated(i) /\ validation_results[i]

Failing(i) ==
    \/ ~PathExists(files[i])
    \/ NotParseable(files[i])
    \/ IsValid(files[i]) /\ Recorded(i) /\ ~validation_results[i]

\* C1: once main has ended, it has returned 0 if and only if every listed
\* file passed or was skipped, and it has returned 1 whenever some listed
\* file is not found, unparseable or fails validation, wherever in the list
\* that file stands.
C1_ExitCodeAggregates ==
    Finished =>
        /\ exit_code = 0 <=> \A i \in Paths : PassedOrSkipped(i)
        /\ (\E i \in Paths : Failing(i)) => exit_code = 1

-----------------------------------------------------------------------------
(* C2                                                                      *)

\* C2: a file whose top-level value is an array gets True without --strict
\* and False with it, and neither the schema loader nor the validator is
\* called for it.
C2_ArrayPolicy ==
    \A i \in Paths :
        Recorded(i) /\ IsArray(files[i]) =>
            /\ WasValidated(i)
            /\ validation_results[i] = ~strict
            /\ LoaderOf(i) = <<>>
            /\ ValidatorOf(i) = <<>>

C2_Witness ==
    \E i \in Paths :
        /\ Recorded(i) /\ IsArray(files[i]) /\ files[i].data.items > 0
        /\ strict /\ ~validation_results[i] /\ WasValidated(i)

-----------------------------------------------------------------------------
(* C3                                                                      *)

\* C3: an object without a "$schema" key gets True without --strict and
\* False with it, and when it is the only file main returns 0 without
\* --strict and 1 with it.
C3_MissingSchemaPolicy ==
    \A i \in Paths :
        Recorded(i) /\ IsObject(files[i]) /\ ~HasSchemaKey(files[i]) =>
            /\ WasValidated(i)
            /\ validation_results[i] = ~strict
            /\ (Len(files) = 1 /\ pc = "done") =>
                    exit_code = (IF strict THEN 1 ELSE 0)

C3_Witness ==
    /\ Len(files) = 1 /\ pc = "done" /\ strict /\ exit_code = 1
    /\ IsObject(files[1]) /\ ~HasSchemaKey(files[1])
    /\ DOMAIN files[1].data.fields # {}

-----------------------------------------------------------------------------
(* C4                                                                      *)

\* The allowed members of a schema, with the types it asks for.
Conforms(schema, doc) ==
    \A k \in DOMAIN doc \ {"$schema"} :
        k \in DOMAIN schema.props /\ doc[k].t = schema.props[k]

\* C4: every instance handed to the validator (to get_validator and to
\* validate) has exactly the top-level members of the parsed document other
\* than "$schema", with the values they have in the document; so a document
\* made of "$schema" and members a closed schema allows is accepted.
C4_SchemaKeyExcluded ==
    \A i \in Paths :
        LET doc == files[i].data.fields IN
        /\ \A j \in 1..Len(validator_calls) :
              validator_calls[j].path = i =>
                  LET inst == validator_calls[j].call.instance IN
                  /\ IsObject(files[i])
                  /\ "$schema" \notin DOMAIN inst
                  /\ DOMAIN inst = DOMAIN doc \ {"$schema"}
                  /\ \A k \in DOMAIN inst : inst[k] = doc[k]
        /\ ( /\ Recorded(i) /\ HasSchemaKey(files[i])
             /\ LoaderOf(i) # <<>>
             /\ LoaderOf(i)[1].call = Str(StrictRef)
             /\ ~StrictSchema.additionalProperties
             /\ "$schema" \notin DOMAIN StrictSchema.props
             /\ Conforms(StrictSchema, doc) )
           => /\ validation_results[i]
              /\ \E j \in 1..Len(ValidatorOf(i)) :
                    ValidatorOf(i)[j].call.op = "validate"

C4_Witness ==
    \E i \in Paths :
        /\ Recorded(i) /\ validation_results[i]
        /\ files[i].data.fields = WithSchema(BodyName, Str(StrictRef))
        /\ Len(ValidatorOf(i)) = 2
        /\ ValidatorOf(i)[2].call = Call("validate", BodyName)

-----------------------------------------------------------------------------
(* C5                                                                      *)

\* C5: whatever the listed paths hold, no exception leaves main: it never
\* ends otherwise than by returning 0 or 1.
C5_NoExceptionEscapes ==
    /\ pc # "raised"
    /\ pc = "done" => exit_code \in {0, 1}

-----------------------------------------------------------------------------
(* C6                                                                      *)

\* What main did for a path it recorded an outcome for.
Observed(i) ==
    [result |-> validation_results[i], out |-> LinesOf(i)]

\* The same for the call validate_json_file would have made under the other
\* value of strict.
UnderOtherStrict(i) ==
    LET r == validate_json_file(i, files[i], ~strict, expand_env_vars)
    IN  [result |-> r.result, out |-> r.out]

\* The outcome of a path main settles itself (lines 131-143) is read off
\* the file alone.
SettledByMain(i) ==
    /\ ~validation_results[i]
    /\ LinesOf(i) = <<Line(i, Cross, IF PathExists(files[i])
                                       THEN "Not a valid JSON file"
                                       ELSE "File not found")>>

StrictBlind(i) ==
    IF WasValidated(i) THEN Observed(i) = UnderOtherStrict(i)
                       ELSE SettledByMain(i)

\* C6: for every file that is not an object lacking "$schema", the outcome
\* and the lines printed are the same with and without --strict.
C6_StrictOnlyMissingKey ==
    \A i \in Paths :
        Recorded(i) /\ ~(IsObject(files[i]) /\ ~HasSchemaKey(files[i]))
            => StrictBlind(i)

\* strict decides the outcome of this file: an array, or an object whose
\* "$schema" is absent or falsy
StrictDecides(f) ==
    \/ IsArray(f)
    \/ IsObject(f) /\ ~Truthy(GetSchemaRef(f.data.fields))

\* C6 (amended): for every file that is neither an array nor an object whose
\* "$schema" is absent or falsy, the outcome and the lines printed are the
\* same with and without --strict.
C6_StrictOnlySchemaLess ==
    \A i \in Paths :
        Recorded(i) /\ ~StrictDecides(files[i]) => StrictBlind(i)

C6_Witness ==
    \E i \in Paths :
        /\ Recorded(i) /\ WasValidated(i) /\ strict /\ expand_env_vars
        /\ HasSchemaKey(files[i])
        /\ GetSchemaRef(files[i].data.fields) = Str(<<"$SCHEMA_DIR", "/strict.json">>)
        /\ validation_results[i]

-----------------------------------------------------------------------------
(* C7                                                                      *)

Marks == {Check, Cross, Warn}

\* C7: for every path main has recorded an outcome for, a status line for
\* that path starting with one of the three marks has been printed.
C7_StatusLineForEveryPath ==
    \A i \in Paths :
        Recorded(i) =>
            \E j \in 1..Len(stdout) :
                stdout[j].path = i /\ stdout[j].mark \in Marks

\* the file was checked against a schema: a loader was made for it
Skipped(i) == validation_results[i] /\ LoaderOf(i) = <<>>

\* C7 (amended): a path with a failed outcome has exactly one line, with the
\* cross; a path that passed validation has exactly one line, with the check
\* mark; a skipped path has no line; the warning sign is never printed.
C7_StatusLineUnlessSkipped ==
    /\ \A i \in Paths :
          Recorded(i) =>
              /\ ~validation_results[i] =>
                    Len(LinesOf(i)) = 1 /\ LinesOf(i)[1].mark = Cross
              /\ validation_results[i] /\ ~Skipped(i) =>
                    Len(LinesOf(i)) = 1 /\ LinesOf(i)[1].mark = Check
              /\ Skipped(i) => LinesOf(i) = <<>>
    /\ \A j \in 1..Len(stdout) : stdout[j].mark # Warn

C7_Witness ==
    \E i \in Paths :
        /\ Recorded(i) /\ ~strict /\ IsArray(files[i])
        /\ validation_results[i] /\ LinesOf(i) = <<>>

-----------------------------------------------------------------------------
(* C8                                                                      *)

\* C8: a path that does not exist gets a failing outcome and the not-found
\* line without being opened or handed to validate_json_file; a file that
\* exists but is not parseable JSON gets a failing outcome without being
\* handed to validate_json_file; either way main returns 1.
C8_NotFoundAndUnparseableFail ==
    \A i \in Paths :
        /\ Handled(i) /\ ~PathExists(files[i]) =>
              /\ Recorded(i) /\ ~validation_results[i]
              /\ LinesOf(i) = <<Line(i, Cross, "File not found")>>
              /\ ~WasOpened(i) /\ ~WasValidated(i)
        /\ Handled(i) /\ NotParseable(files[i]) =>
              /\ Recorded(i) /\ ~validation_results[i]
              /\ ~WasValidated(i)
        /\ ( /\ Finished /\ Len(files) = 1
             /\ (~PathExists(files[i]) \/ NotParseable(files[i])) )
           => exit_code = 1

-----------------------------------------------------------------------------
(* C9                                                                      *)

RawRef(i) == files[i].data.fields["$schema"]

\* C9: the reference given to the schema loader is the expansion of the
\* document's "$schema" string when --expand-env-vars is set and the string
\* exactly as written when it is not; where the two differ, the loader gets
\* the expansion if and only if the flag is set.  Nothing expands the
\* reference after that: a file passes only if the string the loader was
\* given resolves as it stands.
C9_ExpandedIffFlag ==
    \A j \in 1..Len(loader_calls) :
        LET i   == loader_calls[j].path
            ref == loader_calls[j].call
            raw == RawRef(i)
        IN  /\ HasSchemaKey(files[i])
            /\ expand_env_vars  => ref = Str(ExpandPieces(raw.s))
            /\ ~expand_env_vars => ref = raw
            /\ (raw.t = "string" /\ ExpandPieces(raw.s) # raw.s) =>
                  (ref.s = ExpandPieces(raw.s) <=> expand_env_vars)
            /\ (Recorded(i) /\ validation_results[i]) => ref.s \in Resolvable

C9_Witness ==
    \E j \in 1..Len(loader_calls) :
        LET i == loader_calls[j].path IN
        /\ expand_env_vars
        /\ RawRef(i) = Str(<<"${SCHEMA_DIR}", "/strict.json">>)
        /\ loader_calls[j].call = Str(StrictRef)
        /\ Recorded(i) /\ validation_results[i]

-----------------------------------------------------------------------------
(* C10                                                                     *)

Renamed(f, e) == [f EXCEPT !.ext = e]

\* What main did with path i, whatever that was.
Behaviour(i) ==
    [raised    |-> RaisedAt(i),
     result    |-> IF Recorded(i) THEN <<validation_results[i]>> ELSE <<>>,
     marks     |-> [j \in 1..Len(LinesOf(i)) |-> LinesOf(i)[j].mark],
     msgs      |-> [j \in 1..Len(LinesOf(i)) |-> LinesOf(i)[j].msg],
     validated |-> WasValidated(i),
     loader    |-> [j \in 1..Len(LoaderOf(i)) |-> LoaderOf(i)[j].call],
     validator |-> [j \in 1..Len(ValidatorOf(i)) |-> ValidatorOf(i)[j].call]]

\* C10: what main does with a path depends on whether it exists and on its
\* content, not on its extension: two listed files that differ only in
\* extension are treated alike, a file with valid JSON is validated as the
\* .json file of the same content would be, and a file whose content is not
\* JSON never passes, whatever its extension.
C10_ExtensionIrrelevant ==
    \A i \in Paths :
        Handled(i) =>
            /\ \A k \in Paths :
                  ( /\ Handled(k)
                    /\ files[k].cond = files[i].cond
                    /\ files[k].data = files[i].data )
                  => Behaviour(k) = Behaviour(i)
            /\ IsValid(files[i]) =>
                  /\ WasValidated(i)
                  /\ \A e \in Exts :
                        LET r == validate_json_file(i, Renamed(files[i], e),
                                                    strict, expand_env_vars)
                        IN  /\ validation_results[i] = r.result
                            /\ LinesOf(i) = r.out
            /\ NotParseable(files[i]) =>
                  /\ Recorded(i) => ~validation_results[i]
                  /\ exit_code # 0

C10_Witness ==
    \E i \in Paths :
        /\ Recorded(i) /\ files[i].ext = "txt" /\ validation_results[i]
        /\ files[i].data.fields = WithSchema(BodyName, Str(StrictRef))
        /\ LinesOf(i) = <<Line(i, Check, "Schema validation passed")>>

-----------------------------------------------------------------------------
(* C11                                                                     *)

\* C11: every listed path is handled once and in argument order (the
\* outcomes grow by one, at the end, and only for the next path), and when
\* main has ended every listed path has been checked, whatever became of
\* the paths before it: validation_results holds one boolean per path.
C11_EveryPathOnceInOrder ==
    /\ Len(validation_results) <= Len(files)
    /\ \A j \in 1..Len(opened) : \A k \in 1..Len(opened) :
          j < k => opened[j] < opened[k]
    /\ \A j \in 1..Len(stdout) : \A k \in 1..Len(stdout) :
          j < k => stdout[j].path <= stdout[k].path
    /\ Finished =>
          /\ Len(validation_results) = Len(files)
          /\ \A i \in Paths : Recorded(i)

-----------------------------------------------------------------------------
(* C12                                                                     *)

IsScalar(f) == IsValid(f) /\ f.data.kind \in ScalarTypes

\* C12: a file whose top-level value is a number, a string, a boolean or
\* null gets False with and without --strict: the failed lookup of
\* "$schema" is reported by the generic handler with one cross line, no
\* schema is loaded, and the file is never passed over as schema-less.
C12_ScalarAlwaysFails ==
    \A i \in Paths :
        Recorded(i) /\ IsScalar(files[i]) =>
            /\ WasValidated(i)
            /\ ~validation_results[i]
            /\ LinesOf(i) = <<Line(i, Cross, "AttributeError")>>
            /\ LoaderOf(i) = <<>> /\ ValidatorOf(i) = <<>>
            /\ ~validate_json_file(i, files[i], ~strict, expand_env_vars).result
            /\ pc = "done" => exit_code = 1

C12_Witness ==
    \E i \in Paths :
        /\ Recorded(i) /\ files[i].data.kind = "null" /\ IsValid(files[i])
        /\ ~strict /\ ~validation_results[i]
        /\ pc = "done" /\ exit_code = 1

-----------------------------------------------------------------------------
(* C13                                                                     *)

\* the falsy JSON values: "", null, false, 0, [] and {}
FalsyValues == {JEmptyStr, JNull, JFalse, JZero, JEmptyArr, JEmptyObj}

HasFalsySchema(f) ==
    HasSchemaKey(f) /\ f.data.fields["$schema"] \in FalsyValues

\* the same file with the "$schema" member taken out of the document
WithoutSchemaKey(f) ==
    [f EXCEPT !.data.fields =
        [k \in DOMAIN f.data.fields \ {"$schema"} |-> f.data.fields[k]]]

\* C13: an object whose "$schema" is present but falsy is handled as the
\* same object without the key would be: without --strict it passes, no
\* schema loaded and nothing printed; with --strict it fails with the
\* missing-"$schema" line.
C13_FalsySchemaIsMissing ==
    \A i \in Paths :
        Recorded(i) /\ HasFalsySchema(files[i]) =>
            LET r == validate_json_file(i, WithoutSchemaKey(files[i]),
                                        strict, expand_env_vars)
            IN  /\ WasValidated(i)
                /\ validation_results[i] = r.result
                /\ LinesOf(i) = r.out
                /\ LoaderOf(i) = <<>> /\ ValidatorOf(i) = <<>>
                /\ validation_results[i] = ~strict
                /\ LinesOf(i) = IF strict
                                THEN <<Line(i, Cross, "Missing '$schema' key")>>
                                ELSE <<>>

C13_Witness ==
    \E i \in Paths :
        /\ Recorded(i) /\ strict /\ expand_env_vars
        /\ HasSchemaKey(files[i])
        /\ files[i].data.fields["$schema"] = JEmptyObj
        /\ ~validation_results[i]
        /\ LinesOf(i) = <<Line(i, Cross, "Missing '$schema' key")>>

====
